---- MODULE Spec2Model ----
(***************************************************************************)
(* Model of cpp_config.py: the validating builder Cpp_config, the preset   *)
(* builder Cpp_config_auto, the module-level preset records estandar_1 and *)
(* pybind_2, and the file c_cpp_properties.json they write.                *)
(*                                                                         *)
(* A Python str is modelled as the sequence of its characters (a tuple of  *)
(* one-character strings), so that the length of a serialization and the   *)
(* offset of a write are counted in characters of the file.  The model's   *)
(* alphabet is printable ASCII; json's \uXXXX escapes are outside it.      *)
(***************************************************************************)
EXTENDS Integers, Sequences, FiniteSets, TLC

(* ------------------------------------------------------------------ *)
(* str | None                                                           *)
(* ------------------------------------------------------------------ *)

\* The value None of a parameter typed str | None.
None == [some |-> FALSE, val |-> <<>>]

\* A parameter typed str | None that holds the str s.
Some(s) == [some |-> TRUE, val |-> s]

\* Python's `not x` for x : str | None -- true of None and of "".
Not(x) == ~x.some \/ x.val = <<>>

(* ------------------------------------------------------------------ *)
(* Bounds of the model                                                  *)
(* ------------------------------------------------------------------ *)

\* Longest path string drawn for a builder field under SpecBuild.
MaxLen == 2

\* Characters of the strings drawn under SpecBuild.
Alphabet == {"/", "c"}

\* Every string over Alphabet of at most n characters.
Strs(n) == UNION {[1..k -> Alphabet] : k \in 0..n}

\* Every value of a field typed str | None, within the bound.
OptStrs == {None} \cup {Some(s) : s \in Strs(MaxLen)}

\* Sample field values of the builders that persist (Spec, SpecConc): absent,
\* empty, and paths of different lengths, one of them with a backslash.
Instances ==
  {[ruta_compilador |-> None, python_dll |-> None, pybind11_dll |-> None],
   [ruta_compilador |-> Some(<<>>), python_dll |-> None, pybind11_dll |-> None],
   [ruta_compilador |-> Some(<<"/","c","l">>), python_dll |-> None, pybind11_dll |-> None],
   [ruta_compilador |-> Some(<<"/","c","l">>), python_dll |-> Some(<<"/","p","y">>),
    pybind11_dll |-> Some(<<>>)],
   [ruta_compilador |-> None, python_dll |-> Some(<<"/","p","y">>),
    pybind11_dll |-> Some(<<"/","p","b","1","1">>)],
   [ruta_compilador |-> Some(<<"C",":","\\","c","l">>), python_dll |-> Some(<<"/","p","y">>),
    pybind11_dll |-> Some(<<"/","p","b","1","1">>)]}

\* What os.getcwd() returns in the modelled process.
getcwd == <<"/","w">>

\* Values of the parameter ruta: absent, the working directory, another one.
Rutas == {None, Some(<<"/","p">>)}

(* ------------------------------------------------------------------ *)
(* The configuration record                                             *)
(* ------------------------------------------------------------------ *)

Wildcard == <<"$","{","w","o","r","k","s","p","a","c","e","F","o","l","d","e","r","}","/","*","*">>

\* The value standing for "no dict was returned" (the call raised).
NoRecord == [configurations |-> <<>>, version |-> -1]

\* A function that returned v.
Return(v) == [raised |-> "", msg |-> "", value |-> v]

\* A function that raised the exception type t with message m.
Raise(t, m) == [raised |-> t, msg |-> m, value |-> NoRecord]

\* The literal bound to the module-level name estandar_1.
estandar_1_literal ==
  [configurations |-> <<
     [name |-> <<"M","S","V","C">>,
      includePath |-> <<
        <<"$","{","w","o","r","k","s","p","a","c","e","F","o","l","d","e","r","}","/","*","*">>,
        <<"C",":","/","U","s","e","r","s","/","S","Z","/","A","p","p","D","a","t","a","/","L",
       "o","c","a","l","/","P","r","o","g","r","a","m","s","/","P","y","t","h","o","n","/",
       "P","y","t","h","o","n","3","1","2","/","L","i","b","/","s","i","t","e","-","p","a",
       "c","k","a","g","e","s","/","p","y","b","i","n","d","1","1","/","i","n","c","l","u",
       "d","e">>,
        <<"C",":","/","U","s","e","r","s","/","S","Z","/","A","p","p","D","a","t","a","/","L",
       "o","c","a","l","/","P","r","o","g","r","a","m","s","/","P","y","t","h","o","n","/",
       "P","y","t","h","o","n","3","1","2","/","i","n","c","l","u","d","e">> >>,
      compilerPath |-> <<"C",":","/","P","r","o","g","r","a","m"," ","F","i","l","e","s"," ","(","x","8","6",
       ")","/","M","i","c","r","o","s","o","f","t"," ","V","i","s","u","a","l"," ","S","t",
       "u","d","i","o","/","2","0","2","2","/","B","u","i","l","d","T","o","o","l","s","/",
       "V","C","/","T","o","o","l","s","/","M","S","V","C","/","1","4",".","4","4",".","3",
       "5","2","0","7","/","b","i","n","/","H","o","s","t","x","6","4","/","x","6","4","/",
       "c","l",".","e","x","e">>,
      cStandard |-> <<"c","1","7">>,
      cppStandard |-> <<"c","+","+","2","0">>,
      intelliSenseMode |-> <<"w","i","n","d","o","w","s","-","m","s","v","c","-","x","6","4">>] >>,
   version |-> 4]

\* The literal bound to the module-level name pybind_2.
pybind_2_literal ==
  [configurations |-> <<
     [name |-> <<"M","S","V","C">>,
      includePath |-> <<
        <<"$","{","w","o","r","k","s","p","a","c","e","F","o","l","d","e","r","}","/","*","*">>,
        <<"C",":","/","U","s","e","r","s","/","S","Z","/","A","p","p","D","a","t","a","/","L",
       "o","c","a","l","/","P","r","o","g","r","a","m","s","/","P","y","t","h","o","n","/",
       "P","y","t","h","o","n","3","1","2","/","L","i","b","/","s","i","t","e","-","p","a",
       "c","k","a","g","e","s","/","p","y","b","i","n","d","1","1","/","i","n","c","l","u",
       "d","e">>,
        <<"C",":","/","U","s","e","r","s","/","S","Z","/","A","p","p","D","a","t","a","/","L",
       "o","c","a","l","/","P","r","o","g","r","a","m","s","/","P","y","t","h","o","n","/",
       "P","y","t","h","o","n","3","1","2","/","i","n","c","l","u","d","e">> >>,
      compilerPath |-> <<"C",":","/","P","r","o","g","r","a","m"," ","F","i","l","e","s"," ","(","x","8","6",
       ")","/","M","i","c","r","o","s","o","f","t"," ","V","i","s","u","a","l"," ","S","t",
       "u","d","i","o","/","2","0","2","2","/","B","u","i","l","d","T","o","o","l","s","/",
       "V","C","/","T","o","o","l","s","/","M","S","V","C","/","1","4",".","4","4",".","3",
       "5","2","0","7","/","b","i","n","/","H","o","s","t","x","6","4","/","x","6","4","/",
       "c","l",".","e","x","e">>,
      cStandard |-> <<"c","1","7">>,
      cppStandard |-> <<"c","+","+","2","0">>,
      intelliSenseMode |-> <<"w","i","n","d","o","w","s","-","m","s","v","c","-","x","6","4">>] >>,
   version |-> 4]

(* ------------------------------------------------------------------ *)
(* Cpp_config: the two builders                                         *)
(* ------------------------------------------------------------------ *)

\* Cpp_config.__init__: the three fields of a new instance.
Cpp_config(ruta_compilador, python_dll, pybind11_dll) ==
  [ruta_compilador |-> ruta_compilador,
   python_dll |-> python_dll,
   pybind11_dll |-> pybind11_dll]

\* _build_config_estandar with the auxiliary paths added to includePath when
\* the instance holds them.
_build_config_estandar_with_aux(self) ==
  IF Not(self.ruta_compilador)
  THEN Raise("ValueError", "ruta_compilador es requerido")
  ELSE Return(
    [configurations |-> <<
       [name |-> <<"M","S","V","C">>,
        includePath |-> << <<"$","{","w","o","r","k","s","p","a","c","e","F","o","l","d","e","r","}","/","*","*">> >>
          \o (IF Not(self.pybind11_dll) THEN <<>> ELSE <<self.pybind11_dll.val>>)
          \o (IF Not(self.python_dll) THEN <<>> ELSE <<self.python_dll.val>>),
        compilerPath |-> self.ruta_compilador.val,
        cStandard |-> <<"c","1","7">>,
        cppStandard |-> <<"c","+","+","2","0">>,
        intelliSenseMode |-> <<"w","i","n","d","o","w","s","-","m","s","v","c","-","x","6","4">>] >>,
     version |-> 4])

\* Cpp_config._build_config_estandar
_build_config_estandar(self) ==
  IF Not(self.ruta_compilador)
  THEN Raise("ValueError", "ruta_compilador es requerido")
  ELSE Return(
    [configurations |-> <<
       [name |-> <<"M","S","V","C">>,
        includePath |-> << <<"$","{","w","o","r","k","s","p","a","c","e","F","o","l","d","e","r","}","/","*","*">> >>,
        compilerPath |-> self.ruta_compilador.val,
        cStandard |-> <<"c","1","7">>,
        cppStandard |-> <<"c","+","+","2","0">>,
        intelliSenseMode |-> <<"w","i","n","d","o","w","s","-","m","s","v","c","-","x","6","4">>] >>,
     version |-> 4])

\* _build_config_pybind with the auxiliary paths in the order of declaration.
_build_config_pybind_declared_order(self) ==
  IF Not(self.ruta_compilador)
  THEN Raise("ValueError", "ruta_compilador es requerido")
  ELSE IF Not(self.python_dll)
  THEN Raise("ValueError", "python_dll es requerido")
  ELSE IF Not(self.pybind11_dll)
  THEN Raise("ValueError", "pybind11_dll es requerido")
  ELSE Return(
    [configurations |-> <<
       [name |-> <<"M","S","V","C">>,
        includePath |-> <<
          <<"$","{","w","o","r","k","s","p","a","c","e","F","o","l","d","e","r","}","/","*","*">>,
          self.python_dll.val,
          self.pybind11_dll.val >>,
        compilerPath |-> self.ruta_compilador.val,
        cStandard |-> <<"c","1","7">>,
        cppStandard |-> <<"c","+","+","2","0">>,
        intelliSenseMode |-> <<"w","i","n","d","o","w","s","-","m","s","v","c","-","x","6","4">>] >>,
     version |-> 4])

\* _build_config_pybind with pybind11_dll checked before python_dll.
_build_config_pybind_pybind_first(self) ==
  IF Not(self.ruta_compilador)
  THEN Raise("ValueError", "ruta_compilador es requerido")
  ELSE IF Not(self.pybind11_dll)
  THEN Raise("ValueError", "pybind11_dll es requerido")
  ELSE IF Not(self.python_dll)
  THEN Raise("ValueError", "python_dll es requerido")
  ELSE Return(
    [configurations |-> <<
       [name |-> <<"M","S","V","C">>,
        includePath |-> <<
          <<"$","{","w","o","r","k","s","p","a","c","e","F","o","l","d","e","r","}","/","*","*">>,
          self.pybind11_dll.val,
          self.python_dll.val >>,
        compilerPath |-> self.ruta_compilador.val,
        cStandard |-> <<"c","1","7">>,
        cppStandard |-> <<"c","+","+","2","0">>,
        intelliSenseMode |-> <<"w","i","n","d","o","w","s","-","m","s","v","c","-","x","6","4">>] >>,
     version |-> 4])

\* _build_config_pybind with another C++ standard than the plain builder's.
_build_config_pybind_cpp17(self) ==
  IF Not(self.ruta_compilador)
  THEN Raise("ValueError", "ruta_compilador es requerido")
  ELSE IF Not(self.python_dll)
  THEN Raise("ValueError", "python_dll es requerido")
  ELSE IF Not(self.pybind11_dll)
  THEN Raise("ValueError", "pybind11_dll es requerido")
  ELSE Return(
    [configurations |-> <<
       [name |-> <<"M","S","V","C">>,
        includePath |-> <<
          <<"$","{","w","o","r","k","s","p","a","c","e","F","o","l","d","e","r","}","/","*","*">>,
          self.pybind11_dll.val,
          self.python_dll.val >>,
        compilerPath |-> self.ruta_compilador.val,
        cStandard |-> <<"c","1","7">>,
        cppStandard |-> <<"c","+","+","1","7">>,
        intelliSenseMode |-> <<"w","i","n","d","o","w","s","-","m","s","v","c","-","x","6","4">>] >>,
     version |-> 4])

\* Cpp_config._build_config_pybind
_build_config_pybind(self) ==
  IF Not(self.ruta_compilador)
  THEN Raise("ValueError", "ruta_compilador es requerido")
  ELSE IF Not(self.python_dll)
  THEN Raise("ValueError", "python_dll es requerido")
  ELSE IF Not(self.pybind11_dll)
  THEN Raise("ValueError", "pybind11_dll es requerido")
  ELSE Return(
    [configurations |-> <<
       [name |-> <<"M","S","V","C">>,
        includePath |-> <<
          <<"$","{","w","o","r","k","s","p","a","c","e","F","o","l","d","e","r","}","/","*","*">>,
          self.pybind11_dll.val,
          self.python_dll.val >>,
        compilerPath |-> self.ruta_compilador.val,
        cStandard |-> <<"c","1","7">>,
        cppStandard |-> <<"c","+","+","2","0">>,
        intelliSenseMode |-> <<"w","i","n","d","o","w","s","-","m","s","v","c","-","x","6","4">>] >>,
     version |-> 4])

(* ------------------------------------------------------------------ *)
(* json.dump(obj, f, indent=4)                                          *)
(* ------------------------------------------------------------------ *)

\* The indent argument of every json.dump call of the module.
indent == 4

\* n blanks.
Spaces(n) == [i \in 1..n |-> " "]

\* The line break and indentation json writes before an item at depth level.
NewlineIndent(level) == <<"\n">> \o Spaces(indent * level)

RECURSIVE Concat(_, _, _)
\* chunks[lo] \o ... \o chunks[hi], halving the range.
Concat(chunks, lo, hi) ==
  IF lo > hi THEN <<>>
  ELSE IF lo = hi THEN chunks[lo]
  ELSE LET mid == (lo + hi) \div 2
       IN Concat(chunks, lo, mid) \o Concat(chunks, mid + 1, hi)

\* One character inside a JSON string: a quote and a backslash are escaped.
EscapeChar(c) ==
  IF c = "\"" THEN <<"\\", "\"">>
  ELSE IF c = "\\" THEN <<"\\", "\\">>
  ELSE <<c>>

\* The body of a JSON string.
Escape(s) ==
  IF \A i \in 1..Len(s) : EscapeChar(s[i]) = <<s[i]>>
  THEN s
  ELSE Concat([i \in 1..Len(s) |-> EscapeChar(s[i])], 1, Len(s))

\* A str as JSON.
DumpStr(s) == <<"\"">> \o Escape(s) \o <<"\"">>

RECURSIVE Digits(_)
\* The decimal digits of a natural number.
Digits(n) ==
  LET d == <<"0", "1", "2", "3", "4", "5", "6", "7", "8", "9">>
  IN IF n < 10 THEN <<d[n + 1]>> ELSE Digits(n \div 10) \o <<d[(n % 10) + 1]>>

\* An int as JSON.
DumpInt(n) == IF n < 0 THEN <<"-">> \o Digits(-n) ELSE Digits(n)

\* The chunks of items with sep between consecutive ones.
Join(items, sep) ==
  Concat([i \in 1..Len(items) |-> IF i = 1 THEN items[i] ELSE sep \o items[i]],
         1, Len(items))

\* A list whose items are already serialized, written at depth level.
DumpList(items, level) ==
  IF items = <<>> THEN <<"[","]">>
  ELSE <<"[">> \o NewlineIndent(level + 1)
       \o Join(items, <<",">> \o NewlineIndent(level + 1))
       \o NewlineIndent(level) \o <<"]">>

\* A dict given as its <<key, serialized value>> pairs in insertion order.
DumpDict(pairs, level) ==
  IF pairs = <<>> THEN <<"{","}">>
  ELSE <<"{">> \o NewlineIndent(level + 1)
       \o Join([i \in 1..Len(pairs) |->
                 DumpStr(pairs[i][1]) \o <<":"," ">> \o pairs[i][2]],
               <<",">> \o NewlineIndent(level + 1))
       \o NewlineIndent(level) \o <<"}">>

\* One entry of "configurations", written at depth level.
DumpConfiguration(c, level) ==
  DumpDict(<<
    << <<"n","a","m","e">>, DumpStr(c.name) >>,
    << <<"i","n","c","l","u","d","e","P","a","t","h">>,
       DumpList([i \in 1..Len(c.includePath) |-> DumpStr(c.includePath[i])],
                level + 1) >>,
    << <<"c","o","m","p","i","l","e","r","P","a","t","h">>, DumpStr(c.compilerPath) >>,
    << <<"c","S","t","a","n","d","a","r","d">>, DumpStr(c.cStandard) >>,
    << <<"c","p","p","S","t","a","n","d","a","r","d">>, DumpStr(c.cppStandard) >>,
    << <<"i","n","t","e","l","l","i","S","e","n","s","e","M","o","d","e">>, DumpStr(c.intelliSenseMode) >> >>, level)

\* The text json.dump(obj, f, indent=4) writes for a configuration record.
dumps(obj) ==
  DumpDict(<<
    << <<"c","o","n","f","i","g","u","r","a","t","i","o","n","s">>,
       DumpList([i \in 1..Len(obj.configurations) |->
                  DumpConfiguration(obj.configurations[i], 2)], 1) >>,
    << <<"v","e","r","s","i","o","n">>, DumpInt(obj.version) >> >>, 0)

(* ------------------------------------------------------------------ *)
(* The filesystem: os.makedirs, open(path, "w"), write                  *)
(* ------------------------------------------------------------------ *)

\* f"{ruta}/.vscode", after `if ruta is None: ruta = os.getcwd()`.
VscodeDir(ruta) == (IF ruta = None THEN getcwd ELSE ruta.val) \o <<"/",".","v","s","c","o","d","e">>

\* f"{ruta}/.vscode/c_cpp_properties.json", after the same substitution.
FilePath(ruta) ==
  (IF ruta = None THEN getcwd ELSE ruta.val) \o <<"/",".","v","s","c","o","d","e","/","c","_","c","p","p","_","p","r","o","p","e","r",
       "t","i","e","s",".","j","s","o","n">>

\* The directory path and every ancestor of it that has a name.
Ancestors(path) ==
  {SubSeq(path, 1, i) : i \in {j \in 1..Len(path) : j = Len(path) \/ path[j + 1] = "/"}}

\* os.makedirs(path, exist_ok=exist_ok) on the set ds of existing directories.
makedirs(ds, path, exist_ok) ==
  IF path \in ds /\ ~exist_ok
  THEN [raised |-> "FileExistsError", dirs |-> ds]
  ELSE [raised |-> "", dirs |-> ds \cup Ancestors(path)]

\* open without truncation: the file is created if missing, its content kept.
open_keep(fls, path) ==
  [p \in DOMAIN fls \cup {path} |-> IF p \in DOMAIN fls THEN fls[p] ELSE <<>>]

\* open(path, "w"): the file is created or truncated to nothing; the handle
\* starts at offset 0.
open_w(fls, path) ==
  [p \in DOMAIN fls \cup {path} |-> IF p = path THEN <<>> ELSE fls[p]]

\* write through a handle opened for appending: the data goes to the end of
\* the file, whatever the handle's offset.
write_append(fls, path, pos, data) == [fls EXCEPT ![path] = @ \o data]

\* The file after data is written at offset pos through a handle: bytes it
\* covers are replaced, bytes after it stay, a gap before it reads as NUL.
write(fls, path, pos, data) ==
  LET old == fls[path]
      before == IF pos <= Len(old)
                THEN SubSeq(old, 1, pos)
                ELSE old \o [i \in 1..(pos - Len(old)) |-> "NUL"]
      after == SubSeq(old, pos + Len(data) + 1, Len(old))
  IN [fls EXCEPT ![path] = before \o data \o after]

\* The body shared by the four persist methods, with obj the outcome of the
\* expression passed to json.dump (it is evaluated inside the with block, after
\* the directory was made and the file opened):
\*     if ruta is None: ruta = os.getcwd()
\*     os.makedirs(f"{ruta}/.vscode", exist_ok=True)
\*     with open(f"{ruta}/.vscode/c_cpp_properties.json", "w") as f:
\*         json.dump(obj, f, indent=4)
persist(ds, fls, ruta, obj) ==
  LET md == makedirs(ds, VscodeDir(ruta), TRUE)
      opened == open_w(fls, FilePath(ruta))
  IN IF md.raised # ""
     THEN [raised |-> md.raised, msg |-> "", dirs |-> ds, files |-> fls,
           value |-> NoRecord]
     ELSE IF obj.raised # ""
     THEN [raised |-> obj.raised, msg |-> obj.msg, dirs |-> md.dirs,
           files |-> opened, value |-> NoRecord]
     ELSE [raised |-> "", msg |-> "", dirs |-> md.dirs,
           files |-> write(opened, FilePath(ruta), 0, dumps(obj.value)),
           value |-> obj.value]

(* ------------------------------------------------------------------ *)
(* State                                                                *)
(* ------------------------------------------------------------------ *)

VARIABLES
  self,        \* the Cpp_config instance in use: its three fields
  estandar_1,  \* the module-level dict estandar_1
  pybind_2,    \* the module-level dict pybind_2
  dirs,        \* the directories that exist
  files,       \* the files that exist: path -> content
  last,        \* the call that finished last on the instance in use
  pre,         \* that call's target before it ran
  committed,   \* file path -> record of the last persist call that succeeded on it
  proc,        \* SpecConc: the call each concurrent caller is in
  events       \* SpecConc: the opens and writes done on files, in order

vars == <<self, estandar_1, pybind_2, dirs, files, last, pre, committed, proc, events>>

\* The concurrent callers of SpecConc.
Procs == {"A", "B"}

NoCall ==
  [cls |-> "", op |-> "", ruta |-> None, raised |-> "", msg |-> "",
   value |-> NoRecord]

NoProc ==
  [pc |-> "idle", cls |-> "", op |-> "", self |-> Cpp_config(None, None, None),
   ruta |-> None, raised |-> "", buf |-> <<>>]

\* The state shared by every specification's initial condition: an empty
\* filesystem, the module-level names bound to their literals, no call made.
InitCommon ==
  /\ estandar_1 = estandar_1_literal
  /\ pybind_2 = pybind_2_literal
  /\ dirs = {}
  /\ files = <<>>
  /\ last = NoCall
  /\ pre = [vscode |-> FALSE, exists |-> FALSE, data |-> <<>>]
  /\ committed = <<>>
  /\ proc = [p \in Procs |-> NoProc]
  /\ events = <<>>

(* ------------------------------------------------------------------ *)
(* Spec: calls made one after the other                                 *)
(* ------------------------------------------------------------------ *)

Init ==
  /\ self \in Instances
  /\ InitCommon

\* What a finished call leaves in the observation variables.
Observe(cls, op, ruta, o) ==
  /\ last' = [cls |-> cls, op |-> op, ruta |-> ruta, raised |-> o.raised,
              msg |-> o.msg, value |-> o.value]
  /\ pre' = [vscode |-> VscodeDir(ruta) \in dirs,
             exists |-> FilePath(ruta) \in DOMAIN files,
             data |-> IF FilePath(ruta) \in DOMAIN files
                      THEN files[FilePath(ruta)] ELSE <<>>]
  /\ committed' = IF o.raised = ""
                  THEN (FilePath(ruta) :> o.value) @@ committed
                  ELSE committed

\* config = Cpp_config(rc, py, pb): a new instance replaces the one in use.
New_Cpp_config(rc, py, pb) ==
  /\ Cpp_config(rc, py, pb) \in Instances
  /\ self' = Cpp_config(rc, py, pb)
  /\ self' # self
  /\ last' = NoCall
  /\ UNCHANGED <<estandar_1, pybind_2, dirs, files, pre, committed, proc, events>>

\* Cpp_config.config_estandar(ruta)
Cpp_config_config_estandar(ruta) ==
  LET o == persist(dirs, files, ruta, _build_config_estandar(self))
  IN /\ dirs' = o.dirs
     /\ files' = o.files
     /\ Observe("Cpp_config", "config_estandar", ruta, o)
     /\ UNCHANGED <<self, estandar_1, pybind_2, proc, events>>

\* Cpp_config.config_pybind(ruta)
Cpp_config_config_pybind(ruta) ==
  LET o == persist(dirs, files, ruta, _build_config_pybind(self))
  IN /\ dirs' = o.dirs
     /\ files' = o.files
     /\ Observe("Cpp_config", "config_pybind", ruta, o)
     /\ UNCHANGED <<self, estandar_1, pybind_2, proc, events>>

\* Cpp_config_auto.config_estandar that adds the target to the module-level
\* record's includePath before writing it.
Cpp_config_auto_config_estandar_mutating(ruta) ==
  LET changed == [estandar_1 EXCEPT !.configurations[1].includePath =
                    Append(@, VscodeDir(ruta))]
      o == persist(dirs, files, ruta, Return(changed))
  IN /\ estandar_1' = changed
     /\ dirs' = o.dirs
     /\ files' = o.files
     /\ Observe("Cpp_config_auto", "config_estandar", ruta, o)
     /\ UNCHANGED <<self, pybind_2, proc, events>>

\* Cpp_config_auto.config_estandar(ruta)
Cpp_config_auto_config_estandar(ruta) ==
  LET o == persist(dirs, files, ruta, Return(estandar_1))
  IN /\ dirs' = o.dirs
     /\ files' = o.files
     /\ Observe("Cpp_config_auto", "config_estandar", ruta, o)
     /\ UNCHANGED <<self, estandar_1, pybind_2, proc, events>>

\* Cpp_config_auto.config_pybind(ruta)
Cpp_config_auto_config_pybind(ruta) ==
  LET o == persist(dirs, files, ruta, Return(pybind_2))
  IN /\ dirs' = o.dirs
     /\ files' = o.files
     /\ Observe("Cpp_config_auto", "config_pybind", ruta, o)
     /\ UNCHANGED <<self, estandar_1, pybind_2, proc, events>>

Next ==
  \/ \E i \in Instances :
       New_Cpp_config(i.ruta_compilador, i.python_dll, i.pybind11_dll)
  \/ \E ruta \in Rutas : Cpp_config_config_estandar(ruta)
  \/ \E ruta \in Rutas : Cpp_config_config_pybind(ruta)
  \/ \E ruta \in Rutas : Cpp_config_auto_config_estandar(ruta)
  \/ \E ruta \in Rutas : Cpp_config_auto_config_pybind(ruta)

Spec == Init /\ [][Next]_vars

(* ------------------------------------------------------------------ *)
(* SpecBuild: the two builders applied to every instance within MaxLen  *)
(* ------------------------------------------------------------------ *)

InitBuild ==
  /\ self \in {Cpp_config(rc, py, pb) : rc \in OptStrs, py \in OptStrs, pb \in OptStrs}
  /\ InitCommon

\* A call of a builder leaves its outcome in last and nothing else.
Built(op, obj) ==
  /\ last' = [cls |-> "Cpp_config", op |-> op, ruta |-> None,
              raised |-> obj.raised, msg |-> obj.msg, value |-> obj.value]
  /\ UNCHANGED <<self, estandar_1, pybind_2, dirs, files, pre, committed, proc,
                 events>>

\* self._build_config_estandar()
Call_build_config_estandar ==
  Built("_build_config_estandar", _build_config_estandar(self))

\* self._build_config_pybind()
Call_build_config_pybind ==
  Built("_build_config_pybind", _build_config_pybind(self))

NextBuild == Call_build_config_estandar \/ Call_build_config_pybind

SpecBuild == InitBuild /\ [][NextBuild]_vars

(* ------------------------------------------------------------------ *)
(* SpecConc: two callers, each in one persist call, steps interleaved   *)
(* ------------------------------------------------------------------ *)

\* The instances the concurrent callers use.
ConcInstances ==
  {i \in Instances : /\ i.ruta_compilador \in {None, Some(<<"/","c","l">>), Some(<<"C",":","\\","c","l">>)}
                     /\ i.pybind11_dll # Some(<<>>)}

InitConc ==
  /\ self = Cpp_config(None, None, None)
  /\ InitCommon

\* The object a call passes to json.dump, evaluated when the call gets there.
DumpArgument(c) ==
  IF c.cls = "Cpp_config"
  THEN (IF c.op = "config_estandar"
        THEN _build_config_estandar(c.self)
        ELSE _build_config_pybind(c.self))
  ELSE (IF c.op = "config_estandar" THEN Return(estandar_1) ELSE Return(pybind_2))

\* A caller enters config_estandar or config_pybind of an instance.
Enter(p, cls, op, inst, ruta) ==
  /\ proc[p].pc = "idle"
  /\ proc' = [proc EXCEPT ![p] =
       [pc |-> "makedirs", cls |-> cls, op |-> op, self |-> inst, ruta |-> ruta,
        raised |-> "", buf |-> <<>>]]
  /\ UNCHANGED <<self, estandar_1, pybind_2, dirs, files, last, pre, committed,
                 events>>

\* os.makedirs(f"{ruta}/.vscode", exist_ok=True)
StepMakedirs(p) ==
  LET md == makedirs(dirs, VscodeDir(proc[p].ruta), TRUE)
  IN /\ proc[p].pc = "makedirs"
     /\ dirs' = md.dirs
     /\ proc' = [proc EXCEPT ![p].pc = IF md.raised = "" THEN "open" ELSE "done",
                              ![p].raised = md.raised]
     /\ UNCHANGED <<self, estandar_1, pybind_2, files, last, pre, committed,
                    events>>

\* open(f"{ruta}/.vscode/c_cpp_properties.json", "w")
StepOpen(p) ==
  /\ proc[p].pc = "open"
  /\ files' = open_w(files, FilePath(proc[p].ruta))
  /\ events' = Append(events, <<p, "open">>)
  /\ proc' = [proc EXCEPT ![p].pc = "dump"]
  /\ UNCHANGED <<self, estandar_1, pybind_2, dirs, last, pre, committed>>

\* json.dump(<argument>, f, indent=4): the argument is built, and raises or
\* is serialized into the handle's buffer; a raise leaves the with block,
\* which closes the handle with nothing buffered.
StepDump(p) ==
  LET obj == DumpArgument(proc[p])
  IN /\ proc[p].pc = "dump"
     /\ proc' = [proc EXCEPT
          ![p].pc = IF obj.raised = "" THEN "close" ELSE "done",
          ![p].raised = obj.raised,
          ![p].buf = IF obj.raised = "" THEN dumps(obj.value) ELSE <<>>]
     /\ UNCHANGED <<self, estandar_1, pybind_2, dirs, files, last, pre, committed,
                    events>>

\* The with block ends: the buffered text is written at the handle's offset
\* (0: nothing was written through it before) and the handle is closed.
StepClose(p) ==
  /\ proc[p].pc = "close"
  /\ files' = write(files, FilePath(proc[p].ruta), 0, proc[p].buf)
  /\ events' = Append(events, <<p, "write">>)
  /\ proc' = [proc EXCEPT ![p].pc = "done"]
  /\ UNCHANGED <<self, estandar_1, pybind_2, dirs, last, pre, committed>>

NextConc ==
  \/ \E p \in Procs, i \in ConcInstances, ruta \in Rutas,
        op \in {"config_estandar", "config_pybind"} :
       Enter(p, "Cpp_config", op, i, ruta)
  \/ \E p \in Procs, ruta \in Rutas, op \in {"config_estandar", "config_pybind"} :
       Enter(p, "Cpp_config_auto", op, Cpp_config(None, None, None), ruta)
  \/ \E p \in Procs : StepMakedirs(p)
  \/ \E p \in Procs : StepOpen(p)
  \/ \E p \in Procs : StepDump(p)
  \/ \E p \in Procs : StepClose(p)

SpecConc == InitConc /\ [][NextConc]_vars

(* ================================================================== *)
(* Claims                                                               *)
(* ================================================================== *)

\* A field that holds a non-empty string.
NonEmpty(x) == x.some /\ Len(x.val) > 0

\* The output file of the call recorded in last.
Target == FilePath(last.ruta)

\* The only configuration entry of the record the last call produced.
LastConfiguration == last.value.configurations[1]

\* A persist call has finished on the instance in use.
Persisted == last.op \in {"config_estandar", "config_pybind"}

\* C1 (as claimed): when a persist call of the validating builder fails
\* validation on a target that had no .vscode directory and no output file,
\* there is still no .vscode directory and no c_cpp_properties.json afterwards.
C1_NoIOWhenValidationFails ==
  (/\ Persisted
   /\ last.cls = "Cpp_config"
   /\ last.raised = "ValueError"
   /\ ~pre.vscode
   /\ ~pre.exists)
  => (/\ VscodeDir(last.ruta) \notin dirs
      /\ Target \notin DOMAIN files)

\* C2: for every triple of non-empty strings, the extended builder returns a
\* record whose includePath is exactly <<wildcard, pybind11_dll, python_dll>>
\* and whose compilerPath is ruta_compilador.
C2_ExtendedIncludeOrder ==
  (/\ last.op = "_build_config_pybind"
   /\ NonEmpty(self.ruta_compilador)
   /\ NonEmpty(self.python_dll)
   /\ NonEmpty(self.pybind11_dll))
  => (/\ last.raised = ""
      /\ Len(last.value.configurations) = 1
      /\ LastConfiguration.includePath =
           <<Wildcard, self.pybind11_dll.val, self.python_dll.val>>
      /\ LastConfiguration.compilerPath = self.ruta_compilador.val)

\* C2's case: an extended build succeeded with two different auxiliary paths.
C2_Witness ==
  /\ last.op = "_build_config_pybind"
  /\ last.raised = ""
  /\ self.python_dll.val # self.pybind11_dll.val
  /\ Len(self.python_dll.val) = MaxLen

\* C3: for every non-empty ruta_compilador, whatever the auxiliary fields
\* hold, the plain builder returns a record whose includePath is exactly
\* <<wildcard>> and whose compilerPath is ruta_compilador.
C3_PlainRecord ==
  (/\ last.op = "_build_config_estandar"
   /\ NonEmpty(self.ruta_compilador))
  => (/\ last.raised = ""
      /\ Len(last.value.configurations) = 1
      /\ LastConfiguration.includePath = <<Wildcard>>
      /\ LastConfiguration.compilerPath = self.ruta_compilador.val)

\* C3's case: a plain build succeeded on an instance holding both auxiliary
\* paths.
C3_Witness ==
  /\ last.op = "_build_config_estandar"
  /\ last.raised = ""
  /\ NonEmpty(self.python_dll)
  /\ NonEmpty(self.pybind11_dll)

\* The message of the first failing check in the order compiler path, first
\* auxiliary path (python_dll), second auxiliary path (pybind11_dll).
FirstMissing(inst) ==
  IF ~NonEmpty(inst.ruta_compilador) THEN "ruta_compilador es requerido"
  ELSE IF ~NonEmpty(inst.python_dll) THEN "python_dll es requerido"
  ELSE "pybind11_dll es requerido"

\* C4: the extended builder fails exactly when one of the three fields is
\* absent or empty, the error names the first failing field in the order
\* compiler path, python_dll, pybind11_dll, and no record is returned.
C4_ExtendedValidation ==
  last.op = "_build_config_pybind" =>
    LET missing == \/ ~NonEmpty(self.ruta_compilador)
                   \/ ~NonEmpty(self.python_dll)
                   \/ ~NonEmpty(self.pybind11_dll)
    IN /\ (last.raised = "ValueError") <=> missing
       /\ last.raised \in {"", "ValueError"}
       /\ missing => (last.msg = FirstMissing(self) /\ last.value = NoRecord)
       /\ ~missing => last.value # NoRecord

\* C4's case: an extended build failed with the compiler path present and both
\* auxiliary paths missing.
C4_Witness ==
  /\ last.op = "_build_config_pybind"
  /\ last.raised = "ValueError"
  /\ NonEmpty(self.ruta_compilador)
  /\ ~NonEmpty(self.python_dll)
  /\ ~NonEmpty(self.pybind11_dll)

\* C5: after a successful persist call, whatever the file held before, the
\* output file holds exactly the serialization of that call's record, and no
\* call fails because the .vscode directory already exists.
C5_OverwriteNotAppend ==
  Persisted =>
    /\ last.raised # "FileExistsError"
    /\ last.raised = "" =>
         /\ last.value = DumpArgument([cls |-> last.cls, op |-> last.op,
                                       self |-> self]).value
         /\ Target \in DOMAIN files
         /\ files[Target] = dumps(last.value)

\* C5's case: a second successful call on a target whose .vscode directory
\* existed and whose file held a longer serialization written by an earlier
\* call.
C5_Witness ==
  /\ Persisted
  /\ last.raised = ""
  /\ pre.vscode
  /\ pre.exists
  /\ Len(pre.data) > Len(files[Target])

\* Both concurrent callers have finished, on the same output file, and both
\* wrote their serialization.
BothWrote ==
  /\ \A p \in Procs : proc[p].pc = "done" /\ proc[p].raised = ""
  /\ \A p, q \in Procs : FilePath(proc[p].ruta) = FilePath(proc[q].ruta)

\* The caller that wrote last, and the other one.
LastWriter == events[Len(events)][1]
OtherWriter == CHOOSE p \in Procs : p # LastWriter

\* The position of an event in the order of opens and writes.
IndexOf(e) == CHOOSE i \in 1..Len(events) : events[i] = e

\* C6 (as claimed): once both concurrent calls have finished, the file equals
\* the complete serialization of the call that wrote last.
C6_LastWriterWins ==
  BothWrote =>
    files[FilePath(proc[LastWriter].ruta)] = proc[LastWriter].buf

\* C6 (amended): once both concurrent calls have finished, the file is not
\* empty and begins with the complete serialization of the call that wrote
\* last; it is exactly that serialization when the other call wrote before
\* the last writer opened the file, and otherwise it is that serialization
\* followed by whatever the other call's longer serialization has beyond it.
C6_LastWriterPrefix ==
  BothWrote =>
    LET f == files[FilePath(proc[LastWriter].ruta)]
        w == proc[LastWriter].buf
        o == proc[OtherWriter].buf
    IN /\ f # <<>>
       /\ SubSeq(f, 1, Len(w)) = w
       /\ IF IndexOf(<<OtherWriter, "write">>) < IndexOf(<<LastWriter, "open">>)
          THEN f = w
          ELSE f = w \o SubSeq(o, Len(w) + 1, Len(o))

\* C6's case: both calls finished and the file is the last writer's
\* serialization followed by the end of the other call's.
C6_Witness ==
  /\ BothWrote
  /\ files[FilePath(proc[LastWriter].ruta)] # proc[LastWriter].buf
  /\ files[FilePath(proc[LastWriter].ruta)] # proc[OtherWriter].buf

\* C7: the preset builder never raises (no ValueError, nor any other error
\* of the model); a preset plain call always leaves the
\* serialization of the literal estandar_1 in the file, a preset extended call
\* that of the literal pybind_2, whatever the target and the calls before; and
\* the module-level records always equal their literals.
C7_PresetConstants ==
  /\ estandar_1 = estandar_1_literal
  /\ pybind_2 = pybind_2_literal
  /\ (Persisted /\ last.cls = "Cpp_config_auto") =>
       /\ last.raised = ""
       /\ Target \in DOMAIN files
       /\ files[Target] = IF last.op = "config_estandar"
                          THEN dumps(estandar_1_literal)
                          ELSE dumps(pybind_2_literal)

\* C7's case: a preset plain call has written to one directory what an earlier
\* preset plain call had written to the other, calls of the validating builder
\* having failed in between.
C7_Witness ==
  /\ Persisted
  /\ last.cls = "Cpp_config_auto"
  /\ last.op = "config_estandar"
  /\ last.ruta # None
  /\ pre.exists
  /\ pre.data = <<>>
  /\ FilePath(None) \in DOMAIN files
  /\ files[FilePath(None)] = files[Target]

\* C8: every record a persist call produced has one entry in configurations,
\* the fixed name, standards, IntelliSense mode and version, and an
\* includePath that starts with the wildcard and has at most two more entries.
C8_FixedFields ==
  (Persisted /\ last.raised = "") =>
    /\ Len(last.value.configurations) = 1
    /\ last.value.version = 4
    /\ LastConfiguration.name = <<"M","S","V","C">>
    /\ LastConfiguration.cStandard = <<"c","1","7">>
    /\ LastConfiguration.cppStandard = <<"c","+","+","2","0">>
    /\ LastConfiguration.intelliSenseMode = <<"w","i","n","d","o","w","s","-","m","s","v","c","-","x","6","4">>
    /\ Len(LastConfiguration.includePath) \in 1..3
    /\ LastConfiguration.includePath[1] = Wildcard

\* C8's case: the validating builder's extended mode produced a record.
C8_Witness ==
  /\ Persisted
  /\ last.cls = "Cpp_config"
  /\ last.op = "config_pybind"
  /\ last.raised = ""

\* C9 (as claimed): the record written by the preset plain call has only the
\* wildcard in includePath, and the two preset records differ.
C9_PresetPlainOnlyWildcard ==
  (Persisted /\ last.cls = "Cpp_config_auto" /\ last.op = "config_estandar") =>
    /\ LastConfiguration.includePath = <<Wildcard>>
    /\ pybind_2.configurations[1].includePath =
         LastConfiguration.includePath
           \o SubSeq(pybind_2.configurations[1].includePath, 2, 3)
    /\ estandar_1 # pybind_2

\* C10 (as claimed): every output file that exists holds the complete
\* serialization of the record of the last successful persist call on it, and
\* a call that fails leaves an existing file's content unchanged.
C10_FileHoldsLastSuccess ==
  /\ \A f \in DOMAIN files :
       /\ f \in DOMAIN committed
       /\ files[f] = dumps(committed[f])
  /\ (Persisted /\ last.raised # "" /\ pre.exists) => files[Target] = pre.data

====
